---- MODULE Spec2Model ----
(***************************************************************************)
(* Gesture classifier (GestureInterpreter) and interaction controller      *)
(* (App) of the solar-system viewer.                                       *)
(*                                                                         *)
(* Numbers.  Landmark coordinates are normalised image coordinates; the    *)
(* model writes them in hundredths, so 0.4 is 40, 0.25 is 25, 0.06 is 6.   *)
(* A square root is kept exact as the value whose square is the radicand   *)
(* (Sqrt, Gt, Lt below), and the smoothed vector is an exact dyadic        *)
(* rational (numerators x, y, z over 2^k).  The arithmetic is therefore    *)
(* that of the reals; the rounding of IEEE doubles is outside the model.   *)
(***************************************************************************)
EXTENDS Integers, Sequences, FiniteSets, TLC

VARIABLES
    interp,          \* which GestureInterpreter class the App is built with
    app,             \* which App class runs: "point" (main.ts) or "dwell" (part_002)
    history,         \* GestureInterpreter.history
    smoothedDeltas,  \* GestureInterpreter.smoothedDeltas
    hoveredPlanet,   \* App.hoveredPlanet
    selectedPlanet,  \* App.selectedPlanet
    hoverStartTime,  \* App.hoverStartTime
    timeScale,       \* SolarSystem.timeScale
    panelHidden,     \* #info-panel carries the class "hidden"
    tooltipHidden,   \* #planet-tooltip carries the class "hidden"
    tweens,          \* the gsap.to calls the last handler made, in order
    cameraTarget,    \* what the camera was last turned to: the origin or a planet
    now,             \* the value Date.now() returns
    call,            \* the operation that ran last, with its arguments
    result,          \* what the last GestureInterpreter.process call returned or threw
    arrived,         \* history variable: every landmark array pushed so far, in order
    run,             \* history variable: the current run of pan/rotate frames with one raw delta
    pc,              \* where HandTracker's startCamera/processVideo chain stands
    captured,        \* how many video frames hands.send has been given
    outstanding,     \* the frames sent whose hands.send promise has not settled
    delivered        \* history variable: the frames whose result reached onResults, in order

interpVars == <<history, smoothedDeltas>>
appVars == <<hoveredPlanet, selectedPlanet, hoverStartTime, timeScale, panelHidden,
            tooltipHidden, tweens, cameraTarget>>
trackerVars == <<pc, captured, outstanding, delivered>>
vars == <<interp, app, history, smoothedDeltas, hoveredPlanet, selectedPlanet,
          hoverStartTime, timeScale, panelHidden, tooltipHidden, tweens,
          cameraTarget, now, call, result, arrived, run, pc, captured,
          outstanding, delivered>>

---------------------------------------------------------------------------
(* Bounds of the model *)

\* present-hand frames passed to process in the classifier specification
MaxFrames == 3
\* present-hand frames passed to process in the history specification
MaxHistFrames == 11
\* present-hand frames delivered to the App in the controller specification
MaxAppFrames == 3
\* video frames given to hands.send in the tracker specification
MaxSends == 3

---------------------------------------------------------------------------
(* Vectors and exact numbers *)

Vec(x, y, z) == [x |-> x, y |-> y, z |-> z]

VAdd(a, b) == Vec(a.x + b.x, a.y + b.y, a.z + b.z)

RECURSIVE Pow2(_)
Pow2(k) == IF k = 0 THEN 1 ELSE 2 * Pow2(k - 1)

\* a vector of dyadic rationals: (x, y, z) / 2^k, kept in lowest terms
RECURSIVE Norm(_)
Norm(v) ==
    IF v.k > 0 /\ v.x % 2 = 0 /\ v.y % 2 = 0 /\ v.z % 2 = 0
    THEN Norm([x |-> v.x \div 2, y |-> v.y \div 2, z |-> v.z \div 2, k |-> v.k - 1])
    ELSE v

Delta(x, y, z) == [x |-> x, y |-> y, z |-> z, k |-> 0]

Zero == Delta(0, 0, 0)

IsZero(d) == d.x = 0 /\ d.y = 0 /\ d.z = 0

\* Math.sqrt(n): the non-negative number whose square is n
Sqrt(n) == [sq |-> n]

\* s > t and s < t for a square root s and a non-negative constant t
Gt(s, t) == s.sq > t * t
Lt(s, t) == s.sq < t * t

---------------------------------------------------------------------------
(* Detection results *)

Planets == {"Earth", "Mars"}
NoPlanet == "null"

\* a hand pose: where the four fingertips sit relative to the wrist
Shapes == [
    point     |-> [thumb |-> Vec(-20, -10, 0), index |-> Vec(0, -46, 0),
                   middle |-> Vec(0, -10, 0),  ring |-> Vec(6, -8, 0)],
    pinchNear |-> [thumb |-> Vec(0, -20, 0),   index |-> Vec(0, -20, 0),
                   middle |-> Vec(0, -10, 0),  ring |-> Vec(6, -8, 0)],
    pinchEdge |-> [thumb |-> Vec(0, -40, 0),   index |-> Vec(0, -40, 0),
                   middle |-> Vec(0, -10, 0),  ring |-> Vec(6, -8, 0)],
    pinchFar  |-> [thumb |-> Vec(0, -46, 0),   index |-> Vec(0, -46, 0),
                   middle |-> Vec(0, -10, 0),  ring |-> Vec(6, -8, 0)],
    fist      |-> [thumb |-> Vec(-12, -5, 0),  index |-> Vec(0, -10, 0),
                   middle |-> Vec(3, -10, 0),  ring |-> Vec(6, -8, 0)],
    palm      |-> [thumb |-> Vec(-30, -6, 0),  index |-> Vec(0, -46, 0),
                   middle |-> Vec(5, -47, 0),  ring |-> Vec(10, -46, 0)],
    palmPinch |-> [thumb |-> Vec(3, -46, 0),   index |-> Vec(0, -46, 0),
                   middle |-> Vec(5, -47, 0),  ring |-> Vec(10, -46, 0)],
    relaxed   |-> [thumb |-> Vec(-20, -10, 0), index |-> Vec(0, -30, 0),
                   middle |-> Vec(3, -30, 0),  ring |-> Vec(6, -30, 0)]
]

\* wrist positions: three equally spaced points
Wrists == <<Vec(50, 50, 0), Vec(55, 62, 2), Vec(60, 74, 4)>>

\* one hand of a Results object: n landmark points, of which the model keeps
\* those the code reads (0 wrist, 4 thumb tip, 8 index tip, 12 middle tip,
\* 16 ring tip); landmarks[i] is undefined for i >= n
Hand(n, shape, w) ==
    [n |-> n, wrist |-> w,
     thumb  |-> VAdd(w, Shapes[shape].thumb),
     index  |-> VAdd(w, Shapes[shape].index),
     middle |-> VAdd(w, Shapes[shape].middle),
     ring   |-> VAdd(w, Shapes[shape].ring)]

Has(landmarks, i) == i < landmarks.n

At(landmarks, i) ==
    CASE i = 0  -> landmarks.wrist
      [] i = 4  -> landmarks.thumb
      [] i = 8  -> landmarks.index
      [] i = 12 -> landmarks.middle
      [] i = 16 -> landmarks.ring

\* Results objects: multiHandLandmarks missing, empty, or holding hands
NoField == [image |-> "frame"]
Results(hands) == [image |-> "frame", multiHandLandmarks |-> hands]

NoHand(results) ==
    IF "multiHandLandmarks" \notin DOMAIN results THEN TRUE
    ELSE Len(results.multiHandLandmarks) = 0

AbsentResults == {NoField, Results(<<>>)}

FullHands ==
    {Hand(21, "palm", Wrists[i]) : i \in 1..3}
    \cup {Hand(21, "fist", Wrists[i]) : i \in 1..3}
    \cup {Hand(21, "pinchNear", Wrists[i]) : i \in 1..2}
    \cup {Hand(21, s, Wrists[1]) : s \in {"point", "pinchEdge", "pinchFar", "palmPinch", "relaxed"}}

\* hands with fewer than 21 points
ShortHands == {Hand(n, "palm", Wrists[1]) : n \in {20, 5, 0}}

---------------------------------------------------------------------------
(* GestureInterpreter *)

\* what a process call hands back
Return(type, delta, velocity) == [type |-> type, delta |-> delta, velocity |-> velocity]
\* the GestureData of src/src/gestures/GestureInterpreter.ts has no velocity
ReturnNoVelocity(type, delta) == [type |-> type, delta |-> delta]
Throw(e) == [error |-> e]

Returned(r) == "type" \in DOMAIN r
Thrown(r) == "error" \in DOMAIN r
HasVelocity(r) == "velocity" \in DOMAIN r

Out(h, s, r) == [history |-> h, smoothedDeltas |-> s, result |-> r]

\* variant of push that drops the newest frame (pop) instead of the oldest
pushPop(h, landmarks, cap) ==
    LET h1 == Append(h, landmarks)
    IN  IF Len(h1) > cap THEN SubSeq(h1, 1, cap) ELSE h1

\* this.history.push(landmarks); if (this.history.length > cap) this.history.shift()
push(h, landmarks, cap) ==
    LET h1 == Append(h, landmarks)
    IN  IF Len(h1) > cap THEN Tail(h1) ELSE h1

getDist(p1, p2) ==
    Sqrt((p1.x - p2.x) * (p1.x - p2.x) + (p1.y - p2.y) * (p1.y - p2.y))

\* getMovementDelta reads curr.x and prev.x: a TypeError when either point is undefined
CanDelta(h, index) ==
    \/ Len(h) < 2
    \/ Has(h[Len(h)], index) /\ Has(h[Len(h) - 1], index)

\* variant of getMovementDelta that differences against the oldest frame
getMovementDeltaOldest(h, index) ==
    IF Len(h) < 2 THEN Vec(0, 0, 0)
    ELSE LET curr == At(h[Len(h)], index)
             prev == At(h[1], index)
         IN  Vec(curr.x - prev.x, curr.y - prev.y, curr.z - prev.z)

getMovementDelta(h, index) ==
    IF Len(h) < 2 THEN Vec(0, 0, 0)
    ELSE LET curr == At(h[Len(h)], index)
             prev == At(h[Len(h) - 1], index)
         IN  Vec(curr.x - prev.x, curr.y - prev.y, curr.z - prev.z)

\* variant of applySmoothing that starts from zero on every call
applySmoothingFresh(s, raw) ==
    Norm([x |-> raw.x, y |-> raw.y, z |-> raw.z, k |-> 1])

\* variant of applySmoothing whose z line reads raw.y
applySmoothingSlip(s, raw) ==
    Norm([x |-> s.x + raw.x * Pow2(s.k),
          y |-> s.y + raw.y * Pow2(s.k),
          z |-> s.z + raw.y * Pow2(s.k),
          k |-> s.k + 1])

\* smoothed * (1 - 0.5) + raw * 0.5, per axis
applySmoothing(s, raw) ==
    Norm([x |-> s.x + raw.x * Pow2(s.k),
          y |-> s.y + raw.y * Pow2(s.k),
          z |-> s.z + raw.z * Pow2(s.k),
          k |-> s.k + 1])

\* variant of absent that also resets the smoothed vector
absentReset(h, s) == Out(h, Zero, Return("null", Zero, Sqrt(0)))

\* the event of a call that found no hand; History and SmoothedDelta stay
absent(h, s) == Out(h, s, Return("null", Zero, Sqrt(0)))

\* the conditions of the cascade in src/unnamed/part_000
\* variant of richPoint with the curl threshold on the index finger
richPointLow(distIndex, distMiddle, distRing) ==
    Gt(distIndex, 25) /\ Lt(distMiddle, 25) /\ Lt(distRing, 25)
richPoint(distIndex, distMiddle, distRing) ==
    Gt(distIndex, 40) /\ Lt(distMiddle, 25) /\ Lt(distRing, 25)
richPinch(pinchDist) == Lt(pinchDist, 6)
richFist(distIndex, distMiddle, distRing) ==
    Lt(distIndex, 25) /\ Lt(distMiddle, 25) /\ Lt(distRing, 25)
\* variant of richPalm with 0.5 for 0.4
richPalmHigh(distIndex, distMiddle, distRing) ==
    Gt(distIndex, 50) /\ Gt(distMiddle, 50) /\ Gt(distRing, 50)
richPalm(distIndex, distMiddle, distRing) ==
    Gt(distIndex, 40) /\ Gt(distMiddle, 40) /\ Gt(distRing, 40)

\* the conditions of the cascade in src/unnamed/part_002
midPinch(pinchDist) == Lt(pinchDist, 8)
midFist(indexWrist, middleWrist, ringWrist) ==
    Lt(indexWrist, 25) /\ Lt(middleWrist, 25) /\ Lt(ringWrist, 25)
midPalm(indexWrist, middleWrist) == Gt(indexWrist, 45) /\ Gt(middleWrist, 45)

\* variant of pointEvent that smooths the wrist delta as Pan and Rotate do
pointEventSmoothed(h1, s, rawDelta, velocity) ==
    LET s1 == applySmoothing(s, rawDelta)
    IN  Out(h1, s1, Return("point", s1, velocity))

\* the return of the Point branch: a zero delta, no smoothing step
pointEvent(h1, s, rawDelta, velocity) ==
    Out(h1, s, Return("point", Zero, velocity))

\* variant of processRich that tests Pinch before Point
processRichPinchFirst(h, s, results) ==
    IF NoHand(results) THEN absent(h, s)
    ELSE
    LET landmarks == results.multiHandLandmarks[1]
        h1 == push(h, landmarks, 10)
    IN
    IF ~(Has(landmarks, 4) /\ Has(landmarks, 8) /\ Has(landmarks, 12)
         /\ Has(landmarks, 16) /\ Has(landmarks, 0))
    THEN Out(h1, s, Throw("TypeError"))
    ELSE
    LET thumb == At(landmarks, 4)
        index == At(landmarks, 8)
        middle == At(landmarks, 12)
        ring == At(landmarks, 16)
        wrist == At(landmarks, 0)
        distIndex == getDist(index, wrist)
        distMiddle == getDist(middle, wrist)
        distRing == getDist(ring, wrist)
        pinchDist == getDist(thumb, index)
    IN
    IF ~CanDelta(h1, 0) THEN Out(h1, s, Throw("TypeError"))
    ELSE
    LET rawDelta == getMovementDelta(h1, 0)
        velocity == Sqrt(rawDelta.x * rawDelta.x + rawDelta.y * rawDelta.y)
    IN
    IF richPinch(pinchDist)
    THEN IF ~CanDelta(h1, 8) THEN Out(h1, s, Throw("TypeError"))
         ELSE LET d8 == getMovementDelta(h1, 8)
              IN  Out(h1, applySmoothing(s, d8), Return("pinch", Delta(0, 0, d8.y), velocity))
    ELSE IF richPoint(distIndex, distMiddle, distRing)
    THEN pointEvent(h1, s, rawDelta, velocity)
    \* the fourth conjunct reads distPinky, which is declared nowhere
    ELSE IF richFist(distIndex, distMiddle, distRing)
    THEN Out(h1, s, Throw("ReferenceError"))
    ELSE IF richPalm(distIndex, distMiddle, distRing)
    THEN LET s1 == applySmoothing(s, rawDelta)
         IN  Out(h1, s1, Return("rotate", s1, velocity))
    ELSE Out(h1, s, Return("null", Zero, Sqrt(0)))

\* GestureInterpreter.process of src/unnamed/part_000
processRich(h, s, results) ==
    IF NoHand(results) THEN absent(h, s)
    ELSE
    LET landmarks == results.multiHandLandmarks[1]
        h1 == push(h, landmarks, 10)
    IN
    IF ~(Has(landmarks, 4) /\ Has(landmarks, 8) /\ Has(landmarks, 12)
         /\ Has(landmarks, 16) /\ Has(landmarks, 0))
    THEN Out(h1, s, Throw("TypeError"))
    ELSE
    LET thumb == At(landmarks, 4)
        index == At(landmarks, 8)
        middle == At(landmarks, 12)
        ring == At(landmarks, 16)
        wrist == At(landmarks, 0)
        distIndex == getDist(index, wrist)
        distMiddle == getDist(middle, wrist)
        distRing == getDist(ring, wrist)
        pinchDist == getDist(thumb, index)
    IN
    IF ~CanDelta(h1, 0) THEN Out(h1, s, Throw("TypeError"))
    ELSE
    LET rawDelta == getMovementDelta(h1, 0)
        velocity == Sqrt(rawDelta.x * rawDelta.x + rawDelta.y * rawDelta.y)
    IN
    IF richPoint(distIndex, distMiddle, distRing)
    THEN pointEvent(h1, s, rawDelta, velocity)
    ELSE IF richPinch(pinchDist)
    THEN IF ~CanDelta(h1, 8) THEN Out(h1, s, Throw("TypeError"))
         ELSE LET d8 == getMovementDelta(h1, 8)
              IN  Out(h1, applySmoothing(s, d8), Return("pinch", Delta(0, 0, d8.y), velocity))
    \* the fourth conjunct reads distPinky, which is declared nowhere
    ELSE IF richFist(distIndex, distMiddle, distRing)
    THEN Out(h1, s, Throw("ReferenceError"))
    ELSE IF richPalm(distIndex, distMiddle, distRing)
    THEN LET s1 == applySmoothing(s, rawDelta)
         IN  Out(h1, s1, Return("rotate", s1, velocity))
    ELSE Out(h1, s, Return("null", Zero, Sqrt(0)))

\* GestureInterpreter.process of src/unnamed/part_002
processMid(h, s, results) ==
    IF NoHand(results) THEN absent(h, s)
    ELSE
    LET landmarks == results.multiHandLandmarks[1]
        h1 == push(h, landmarks, 10)
    IN
    IF ~(Has(landmarks, 4) /\ Has(landmarks, 8) /\ Has(landmarks, 12)
         /\ Has(landmarks, 16) /\ Has(landmarks, 0))
    THEN Out(h1, s, Throw("TypeError"))
    ELSE
    LET thumb == At(landmarks, 4)
        index == At(landmarks, 8)
        middle == At(landmarks, 12)
        wrist == At(landmarks, 0)
        pinchDist == getDist(thumb, index)
        indexWrist == getDist(index, wrist)
        middleWrist == getDist(middle, wrist)
        ringWrist == getDist(At(landmarks, 16), wrist)
    IN
    IF ~CanDelta(h1, 0) THEN Out(h1, s, Throw("TypeError"))
    ELSE
    LET rawDelta == getMovementDelta(h1, 0)
        velocity == Sqrt(rawDelta.x * rawDelta.x + rawDelta.y * rawDelta.y)
    IN
    IF midPinch(pinchDist)
    THEN IF ~CanDelta(h1, 8) THEN Out(h1, s, Throw("TypeError"))
         ELSE LET d8 == getMovementDelta(h1, 8)
              IN  Out(h1, applySmoothing(s, d8), Return("pinch", Delta(0, 0, d8.y), velocity))
    ELSE IF midFist(indexWrist, middleWrist, ringWrist)
    THEN LET s1 == applySmoothing(s, rawDelta)
         IN  Out(h1, s1, Return("pan", s1, velocity))
    ELSE IF midPalm(indexWrist, middleWrist)
    THEN LET s1 == applySmoothing(s, rawDelta)
         IN  Out(h1, s1, Return("rotate", s1, velocity))
    ELSE Out(h1, s, Return("null", Zero, Sqrt(0)))

\* GestureInterpreter.process of src/src/gestures/GestureInterpreter.ts
processSimple(h, s, results) ==
    IF NoHand(results) THEN Out(h, s, ReturnNoVelocity("null", Zero))
    ELSE
    LET landmarks == results.multiHandLandmarks[1]
        h1 == push(h, landmarks, 5)
    IN
    IF ~(Has(landmarks, 4) /\ Has(landmarks, 8))
    THEN Out(h1, s, Throw("TypeError"))
    ELSE
    LET thumb == At(landmarks, 4)
        index == At(landmarks, 8)
        pinchDist == getDist(thumb, index)
    IN
    IF Lt(pinchDist, 5)
    THEN IF ~CanDelta(h1, 8) THEN Out(h1, s, Throw("TypeError"))
         ELSE LET delta == getMovementDelta(h1, 8)
              IN  Out(h1, s, ReturnNoVelocity("pinch", Delta(0, 0, delta.y)))
    ELSE
    IF ~(Has(landmarks, 12) /\ Has(landmarks, 0))
    THEN Out(h1, s, Throw("TypeError"))
    ELSE
    LET middle == At(landmarks, 12)
        wrist == At(landmarks, 0)
        indexWrist == getDist(index, wrist)
        middleWrist == getDist(middle, wrist)
    IN
    IF Lt(indexWrist, 20) /\ Lt(middleWrist, 20)
    THEN IF ~CanDelta(h1, 0) THEN Out(h1, s, Throw("TypeError"))
         ELSE LET delta == getMovementDelta(h1, 0)
              IN  Out(h1, s, ReturnNoVelocity("pan", Delta(delta.x, delta.y, delta.z)))
    ELSE IF Gt(indexWrist, 40) /\ Gt(middleWrist, 40)
    THEN IF ~CanDelta(h1, 0) THEN Out(h1, s, Throw("TypeError"))
         ELSE LET delta == getMovementDelta(h1, 0)
              IN  Out(h1, s, ReturnNoVelocity("rotate", Delta(delta.x, delta.y, delta.z)))
    ELSE Out(h1, s, ReturnNoVelocity("null", Zero))

\* variant of process in which every App holds the class of part_000
processOfRich(h, s, results) == processRich(h, s, results)

\* the process method of the class the App holds
process(h, s, results) ==
    CASE interp = "rich"   -> processRich(h, s, results)
      [] interp = "mid"    -> processMid(h, s, results)
      [] interp = "simple" -> processSimple(h, s, results)

\* capacity of this.history in the class the App holds
Capacity == IF interp = "simple" THEN 5 ELSE 10

---------------------------------------------------------------------------
(* App *)

\* the fields a handler works on, with no gsap.to call made yet;
\* SolarSystem.timeScale in hundredths: 2.5, 0.01 (main.ts), 0.02 (part_002)
AppState == [hoveredPlanet |-> hoveredPlanet, selectedPlanet |-> selectedPlanet,
             hoverStartTime |-> hoverStartTime, timeScale |-> timeScale,
             panelHidden |-> panelHidden, tooltipHidden |-> tooltipHidden,
             tweens |-> <<>>]

\* one gsap.to(target, {props..., onUpdate}) call, named after the branch making it
Tween(by, target, props, onUpdate) ==
    [by |-> by, target |-> target, props |-> props, onUpdate |-> onUpdate]
gsapTo(a, tween) == [a EXCEPT !.tweens = Append(a.tweens, tween)]

\* d.z > t for a delta d = (x, y, z) / 2^k
DeltaZGt(d, t) == d.z > t * Pow2(d.k)

\* App.focusOnPlanet; only the one of src/src/main.ts sends the camera to the planet
focusOnPlanet(a, planet) ==
    LET a1 == [a EXCEPT !.selectedPlanet = planet,
                        !.timeScale = IF app = "point" THEN 1 ELSE 2,
                        !.tooltipHidden = TRUE,
                        !.panelHidden = FALSE]
    IN  IF app = "point"
        THEN gsapTo(a1, Tween("focus", "camera.position", {"x", "y", "z"}, "none"))
        ELSE a1

\* variant of exitFocus that also forgets the hovered planet
exitFocusClearsHover(a) ==
    [a EXCEPT !.selectedPlanet = NoPlanet,
              !.timeScale = 250,
              !.panelHidden = TRUE,
              !.hoveredPlanet = NoPlanet]

\* variant of exitFocus that leaves the time scale as it is
exitFocusKeepsRate(a) ==
    [a EXCEPT !.selectedPlanet = NoPlanet,
              !.panelHidden = TRUE]

\* App.exitFocus
exitFocus(a) ==
    [a EXCEPT !.selectedPlanet = NoPlanet,
              !.timeScale = 250,
              !.panelHidden = TRUE]

\* variant of updateSelectionPoint that locks only a planet hovered before
updateSelectionPointHovered(a, hit, isPointing) ==
    IF hit # NoPlanet
    THEN LET a1 == [a EXCEPT !.tooltipHidden = FALSE]
             a2 == IF isPointing /\ a1.hoveredPlanet = hit /\ a1.selectedPlanet # hit
                   THEN focusOnPlanet(a1, hit) ELSE a1
         IN  [a2 EXCEPT !.hoveredPlanet = hit]
    ELSE [a EXCEPT !.tooltipHidden = TRUE, !.hoveredPlanet = NoPlanet]

\* variant of updateSelectionPoint whose miss branch drops the selection
updateSelectionPointDrop(a, hit, isPointing) ==
    IF hit # NoPlanet
    THEN LET a1 == [a EXCEPT !.tooltipHidden = FALSE]
             a2 == IF isPointing /\ a1.selectedPlanet # hit
                   THEN focusOnPlanet(a1, hit) ELSE a1
         IN  [a2 EXCEPT !.hoveredPlanet = hit]
    ELSE [a EXCEPT !.tooltipHidden = TRUE, !.hoveredPlanet = NoPlanet,
                   !.selectedPlanet = NoPlanet]

\* App.updateSelection of src/src/main.ts; hit is intersects[0], or NoPlanet
updateSelectionPoint(a, hit, isPointing) ==
    IF hit # NoPlanet
    THEN LET a1 == [a EXCEPT !.tooltipHidden = FALSE]
             a2 == IF isPointing /\ a1.selectedPlanet # hit
                   THEN focusOnPlanet(a1, hit) ELSE a1
         IN  [a2 EXCEPT !.hoveredPlanet = hit]
    ELSE [a EXCEPT !.tooltipHidden = TRUE, !.hoveredPlanet = NoPlanet]

\* variant of dwellElapsed with >= for >
dwellElapsedInclusive(t, start) == t - start >= 1200

\* Date.now() - this.hoverStartTime > 1200
dwellElapsed(t, start) == t - start > 1200

\* variant of updateSelectionDwell that keeps the timer of the planet hovered before
updateSelectionDwellNoRestart(a, hit, t) ==
    IF hit # NoPlanet
    THEN LET a1 == [a EXCEPT !.tooltipHidden = FALSE]
         IN  IF a1.hoveredPlanet # hit
             THEN [a1 EXCEPT !.hoveredPlanet = hit]
             ELSE IF dwellElapsed(t, a1.hoverStartTime) /\ a1.selectedPlanet # hit
             THEN focusOnPlanet(a1, hit)
             ELSE a1
    ELSE [a EXCEPT !.tooltipHidden = TRUE, !.hoveredPlanet = NoPlanet]

\* App.updateSelection of src/unnamed/part_002; t is what Date.now() returns
updateSelectionDwell(a, hit, t) ==
    IF hit # NoPlanet
    THEN LET a1 == [a EXCEPT !.tooltipHidden = FALSE]
         IN  IF a1.hoveredPlanet # hit
             THEN [a1 EXCEPT !.hoveredPlanet = hit, !.hoverStartTime = t]
             ELSE IF dwellElapsed(t, a1.hoverStartTime) /\ a1.selectedPlanet # hit
             THEN focusOnPlanet(a1, hit)
             ELSE a1
    ELSE [a EXCEPT !.tooltipHidden = TRUE, !.hoveredPlanet = NoPlanet]

\* delta.z > 0.05 && this.selectedPlanet
pinchExits(a, data) == DeltaZGt(data.delta, 5) /\ a.selectedPlanet # NoPlanet

\* variant of panExits without the velocity test
panExitsSlow(a, data) == a.selectedPlanet # NoPlanet

\* velocity > 0.1 && this.selectedPlanet; an undefined velocity compares false
panExits(a, data) ==
    HasVelocity(data) /\ Gt(data.velocity, 10) /\ a.selectedPlanet # NoPlanet

\* variant of rotateOrbits that orbits whether or not a planet is selected
rotateOrbitsFocused(a, type) == type = "rotate"

\* type === 'rotate' && !this.selectedPlanet
rotateOrbits(a, type) == type = "rotate" /\ a.selectedPlanet = NoPlanet

\* the part of App.handleGestures after process returned data
handleGestures(a, data, hit, t) ==
    LET type == data.type
        a1 == IF app = "point"
              THEN updateSelectionPoint(a, hit, type = "point")
              ELSE updateSelectionDwell(a, hit, t)
    IN  IF type = "pinch"
        THEN LET a2 == gsapTo(a1, Tween("pinch", "camera.position",
                                        IF app = "point" THEN {"z"} ELSE {"x", "y", "z"},
                                        "camera.fov"))
             IN  IF pinchExits(a2, data) THEN exitFocus(a2) ELSE a2
        ELSE IF type = "pan"
        THEN LET a2 == gsapTo(a1, Tween("pan", "camera.position", {"x", "y"}, "none"))
             IN  IF panExits(a2, data) THEN exitFocus(a2) ELSE a2
        ELSE IF rotateOrbits(a1, type)
        THEN gsapTo(a1, Tween("rotate", "camera.position", {"x", "z"}, "camera.lookAt(0,0,0)"))
        ELSE gsapTo(a1, Tween("rest", "camera", {"fov"}, "camera.updateProjectionMatrix"))

\* variant of handleResults whose no-hand branch also clears the hover
handleResultsClearsHover(a, out, results, hit, t) ==
    IF ~NoHand(results)
    THEN IF Thrown(out.result) THEN a
         ELSE handleGestures(a, out.result, hit, t)
    ELSE [a EXCEPT !.tooltipHidden = TRUE, !.hoveredPlanet = NoPlanet]

\* App.handleResults: the callback HandTracker hands every Results object to
handleResults(a, out, results, hit, t) ==
    IF ~NoHand(results)
    THEN IF Thrown(out.result) THEN a
         ELSE handleGestures(a, out.result, hit, t)
    ELSE [a EXCEPT !.tooltipHidden = TRUE]

---------------------------------------------------------------------------
(* State machine *)

\* the compositions: main.ts written against the classifier of part_000,
\* main.ts with the class its import resolves to, and the App of part_002
\* with the classifier of part_002
Compositions == {<<"point", "rich">>, <<"point", "simple">>, <<"dwell", "mid">>}

\* the readings of Date.now() the model draws from, in milliseconds; the
\* least is the reading at construction
ClockValues == {5000, 6199, 6200, 6201}
FirstClock == CHOOSE t \in ClockValues : \A u \in ClockValues : t <= u

\* whether #info-panel carries the class "hidden" when the page loads: the
\* markup is not among the sources; the selection lifecycle starts in Idle,
\* where no detail panel is shown
PanelHiddenAtLoad == TRUE

NoResult == [none |-> TRUE]
NoRun == [len |-> 0, raw |-> Vec(0, 0, 0), start |-> Zero]
Call(op, results, hit) == [op |-> op, results |-> results, hit |-> hit]

Init ==
    /\ \E c \in Compositions : app = c[1] /\ interp = c[2]
    /\ history = <<>>
    /\ smoothedDeltas = Zero
    /\ hoveredPlanet = IF app = "point" THEN "undefined" ELSE NoPlanet
    /\ selectedPlanet = NoPlanet
    /\ hoverStartTime = 0
    /\ timeScale = 250
    /\ panelHidden = PanelHiddenAtLoad
    /\ tooltipHidden = TRUE
    /\ tweens = <<>>
    /\ cameraTarget = "origin"
    /\ now = FirstClock
    /\ call = Call("constructor", NoField, NoPlanet)
    /\ result = NoResult
    /\ arrived = <<>>
    /\ run = NoRun
    /\ pc = "getUserMedia"
    /\ captured = 0
    /\ outstanding = {}
    /\ delivered = <<>>

\* the run of consecutive pan/rotate returns that share one raw wrist delta
NextRun(out) ==
    IF Returned(out.result) /\ out.result.type \in {"pan", "rotate"}
    THEN LET raw == getMovementDelta(out.history, 0)
         IN  IF run.len > 0 /\ run.raw = raw
             THEN [run EXCEPT !.len = run.len + 1]
             ELSE [len |-> 1, raw |-> raw, start |-> smoothedDeltas]
    ELSE NoRun

Interpreter(out, results) ==
    /\ history' = out.history
    /\ smoothedDeltas' = out.smoothedDeltas
    /\ result' = out.result
    /\ arrived' = IF NoHand(results) THEN arrived
                  ELSE Append(arrived, results.multiHandLandmarks[1])
    /\ run' = NextRun(out)

\* one call of gestureInterpreter.process(results)
Process(results) ==
    LET out == process(history, smoothedDeltas, results)
    IN  /\ Interpreter(out, results)
        /\ call' = Call("process", results, NoPlanet)
        /\ UNCHANGED <<interp, app, appVars, now>>

\* variant of HandleResults in which a result with no hand empties History
HandleResultsForgets(results, hit, t) ==
    LET out == process(history, smoothedDeltas, results)
        a == handleResults(AppState, out, results, hit, t)
    IN  /\ t >= now
        /\ IF NoHand(results)
           THEN /\ history' = <<>>
                /\ UNCHANGED <<smoothedDeltas, result, arrived, run>>
           ELSE Interpreter(out, results)
        /\ hoveredPlanet' = a.hoveredPlanet
        /\ selectedPlanet' = a.selectedPlanet
        /\ hoverStartTime' = a.hoverStartTime
        /\ timeScale' = a.timeScale
        /\ panelHidden' = a.panelHidden
        /\ tooltipHidden' = a.tooltipHidden
        /\ tweens' = a.tweens
        /\ now' = t
        /\ call' = Call("handleResults", results, IF NoHand(results) THEN NoPlanet ELSE hit)
        /\ UNCHANGED <<interp, app, cameraTarget>>

\* one detection result delivered to App.handleResults; the ray hits `hit`
\* and Date.now() reads t
HandleResults(results, hit, t) ==
    LET out == process(history, smoothedDeltas, results)
        a == handleResults(AppState, out, results, hit, t)
    IN  /\ t >= now
        /\ IF NoHand(results)
           THEN UNCHANGED <<history, smoothedDeltas, result, arrived, run>>
           ELSE Interpreter(out, results)
        /\ hoveredPlanet' = a.hoveredPlanet
        /\ selectedPlanet' = a.selectedPlanet
        /\ hoverStartTime' = a.hoverStartTime
        /\ timeScale' = a.timeScale
        /\ panelHidden' = a.panelHidden
        /\ tooltipHidden' = a.tooltipHidden
        /\ tweens' = a.tweens
        /\ now' = t
        /\ call' = Call("handleResults", results, IF NoHand(results) THEN NoPlanet ELSE hit)
        /\ UNCHANGED <<interp, app, cameraTarget>>

\* a click on the #exit-focus button of the shown info panel
ExitClick ==
    LET a == exitFocus(AppState)
    IN  /\ ~panelHidden
        /\ selectedPlanet' = a.selectedPlanet
        /\ timeScale' = a.timeScale
        /\ panelHidden' = a.panelHidden
        /\ tweens' = a.tweens
        /\ call' = Call("exitFocus", NoField, NoPlanet)
        /\ UNCHANGED <<interp, app, interpVars, hoveredPlanet, hoverStartTime,
                       tooltipHidden, cameraTarget, now, result, arrived, run,
                       trackerVars>>

\* one render tick, App.animate, past its test of this.selectedPlanet: the
\* camera position is interpolated toward the planet plus an offset and the
\* camera is turned to the planet; a tick with no planet selected changes
\* nothing of the state kept here
Animate ==
    /\ selectedPlanet # NoPlanet
    /\ cameraTarget' = selectedPlanet
    /\ tweens' = <<>>
    /\ call' = Call("animate", NoField, NoPlanet)
    /\ UNCHANGED <<interp, app, interpVars, hoveredPlanet, selectedPlanet,
                   hoverStartTime, timeScale, panelHidden, tooltipHidden, now,
                   result, arrived, run, trackerVars>>

\* inputs of the three specifications
InterpInputs == AbsentResults \cup {Results(<<h>>) : h \in FullHands \cup ShortHands}

HistHands == {Hand(21, "palm", Wrists[1]), Hand(21, "palm", Wrists[2])}
HistInputs == {NoField} \cup {Results(<<h>>) : h \in HistHands}

AppHands ==
    {Hand(21, "fist", Wrists[i]) : i \in 1..2}
    \cup {Hand(21, s, Wrists[1]) : s \in {"point", "pinchNear", "palm"}}
AppInputs == {NoField} \cup {Results(<<h>>) : h \in AppHands}

\* the classifier alone, called frame by frame
NextInterp ==
    \E results \in InterpInputs :
        /\ ~NoHand(results) => Len(arrived) < MaxFrames
        /\ Process(results)
        /\ UNCHANGED trackerVars

SpecInterp == Init /\ [][NextInterp]_vars

\* the classifier alone, fed more frames than the history holds
NextHist ==
    \E results \in HistInputs :
        /\ ~NoHand(results) => Len(arrived) < MaxHistFrames
        /\ Process(results)
        /\ UNCHANGED trackerVars

SpecHist == Init /\ [][NextHist]_vars

\* the readings a frame can take: only the App of part_002 reads the clock
Readings == IF app = "dwell" THEN ClockValues ELSE {now}

\* the App driven by detection results and clicks
Frame ==
    \E results \in AppInputs, hit \in Planets \cup {NoPlanet}, t \in Readings :
        /\ ~NoHand(results) => Len(arrived) < MaxAppFrames
        /\ HandleResults(results, hit, t)
        /\ UNCHANGED trackerVars

Next == Frame \/ ExitClick \/ Animate

Spec == Init /\ [][Next]_vars

---------------------------------------------------------------------------
(* HandTracker: the camera loop that feeds the App *)

(***************************************************************************)
(* startCamera awaits getUserMedia and calls processVideo once.            *)
(* processVideo gives the current video frame to hands.send when the video *)
(* has data, awaits the promise, and asks for an animation frame whose     *)
(* callback calls processVideo again.  The detector is the MediaPipe       *)
(* library: it takes a frame that was sent, invokes the callback           *)
(* registered with hands.onResults, and then settles the promise of that   *)
(* send.  Which of several frames in flight it would finish first is not   *)
(* fixed by this repository, so Deliver may take any of them; nor is what  *)
(* the promise does when the callback throws, so Settle may reject it or   *)
(* fulfil it.  Every handler runs to completion on the one JavaScript      *)
(* thread, which is why each is one action.                                *)
(***************************************************************************)

\* startCamera: the user grants or denies the webcam
StartCamera(granted) ==
    /\ pc = "getUserMedia"
    /\ pc' = IF granted THEN "processVideo" ELSE "stopped"
    /\ call' = Call("startCamera", NoField, NoPlanet)
    /\ UNCHANGED <<interp, app, interpVars, appVars, now, result, arrived, run,
                   captured, outstanding, delivered>>

\* where processVideo stands once it has called hands.send
afterSendNotAwaited == "processVideo"
afterSend == "send"

\* one call of processVideo, from startCamera or from the animation-frame
\* callback, up to its await or its requestAnimationFrame; `ready` is
\* video.readyState >= 2
ProcessVideo(ready) ==
    /\ pc = "processVideo"
    /\ IF ready
       THEN /\ captured < MaxSends
            /\ captured' = captured + 1
            /\ outstanding' = outstanding \cup {captured + 1}
            /\ pc' = afterSend
       ELSE UNCHANGED <<pc, captured, outstanding>>
    /\ call' = Call("processVideo", NoField, NoPlanet)
    /\ UNCHANGED <<interp, app, interpVars, appVars, now, result, arrived, run,
                   delivered>>

\* the detector finishes frame id and invokes the onResults callback, which
\* draws the debug overlay and calls App.handleResults
Deliver(id, results, hit, t) ==
    /\ id \in outstanding
    /\ \A i \in 1..Len(delivered) : delivered[i] # id
    /\ HandleResults(results, hit, t)
    /\ delivered' = Append(delivered, id)
    /\ UNCHANGED <<pc, captured, outstanding>>

\* the callback that ran last threw out of App.handleResults
CallbackThrew ==
    /\ call.op = "handleResults"
    /\ ~NoHand(call.results)
    /\ Thrown(result)

\* the promise of the send of frame id settles after its callback; a
\* processVideo that awaits it goes on to requestAnimationFrame, or ends
\* there when the promise is rejected
Settle(id, rejected) ==
    /\ id \in outstanding
    /\ \E i \in 1..Len(delivered) : delivered[i] = id
    /\ rejected => CallbackThrew
    /\ outstanding' = outstanding \ {id}
    /\ pc' = IF pc = "send"
             THEN IF rejected THEN "stopped" ELSE "processVideo"
             ELSE pc
    /\ UNCHANGED <<interp, app, interpVars, appVars, now, call, result, arrived,
                   run, captured, delivered>>

NextTracker ==
    \/ \E granted \in BOOLEAN : StartCamera(granted)
    \/ \E ready \in BOOLEAN : ProcessVideo(ready)
    \/ \E id \in outstanding, results \in AppInputs,
          hit \in Planets \cup {NoPlanet}, t \in Readings :
            Deliver(id, results, hit, t)
    \/ \E id \in outstanding, rejected \in BOOLEAN : Settle(id, rejected)

SpecTracker == Init /\ [][NextTracker]_vars

---------------------------------------------------------------------------
(* Vocabulary of the properties *)

\* equality of two dyadic vectors, and half of one
RatEq(a, b) ==
    /\ a.x * Pow2(b.k) = b.x * Pow2(a.k)
    /\ a.y * Pow2(b.k) = b.y * Pow2(a.k)
    /\ a.z * Pow2(b.k) = b.z * Pow2(a.k)
Half(s) == [s EXCEPT !.k = s.k + 1]
\* s - r and v * 2^j for a dyadic vector and an integer vector
Minus(s, r) == [x |-> s.x - r.x * Pow2(s.k), y |-> s.y - r.y * Pow2(s.k),
                z |-> s.z - r.z * Pow2(s.k), k |-> s.k]
TimesPow2(v, j) == [x |-> v.x * Pow2(j), y |-> v.y * Pow2(j), z |-> v.z * Pow2(j), k |-> v.k]

\* the hand of a Results object, and the geometry of a hand
HandOf(results) == results.multiHandLandmarks[1]
IndexWrist(f) == getDist(f.index, f.wrist)
MiddleWrist(f) == getDist(f.middle, f.wrist)
RingWrist(f) == getDist(f.ring, f.wrist)
ThumbIndex(f) == getDist(f.thumb, f.index)
Coincident(f) == ThumbIndex(f) = Sqrt(0)
Curled(f) == Lt(MiddleWrist(f), 25) /\ Lt(RingWrist(f), 25)
AllFar(f) == Gt(IndexWrist(f), 45) /\ Gt(MiddleWrist(f), 45) /\ Gt(RingWrist(f), 45)
PinchLimit == CASE interp = "rich" -> 6 [] interp = "mid" -> 8 [] interp = "simple" -> 5

\* the last operation was process on a hand of 21 points
ProcessedFull ==
    IF call.op = "process" /\ ~NoHand(call.results)
    THEN HandOf(call.results).n = 21 ELSE FALSE
\* the frame pushed before the last one, if any, holds landmark i
PrevHas(i) == Len(arrived) >= 2 => Has(arrived[Len(arrived) - 1], i)
\* the last two frames pushed are the same frame
SameTwice == IF Len(arrived) >= 2 THEN arrived[Len(arrived)] = arrived[Len(arrived) - 1] ELSE FALSE

ZeroVelocity(r) == HasVelocity(r) => r.velocity = Sqrt(0)

---------------------------------------------------------------------------
(* Properties of the classifier, checked under SpecInterp *)

\* C1: a process call whose input has no detected hand (multiHandLandmarks
\* missing or empty) returns type None, delta (0,0,0) and velocity 0 (in the
\* classes that return a velocity) and leaves History and SmoothedDelta as
\* they were before the call.
C1_AbsentIsNeutral ==
    [][(call'.op = "process" /\ NoHand(call'.results)) =>
         /\ Returned(result')
         /\ result'.type = "null"
         /\ result'.delta = Zero
         /\ interp # "simple" => HasVelocity(result')
         /\ ZeroVelocity(result')
         /\ history' = history
         /\ smoothedDeltas' = smoothedDeltas]_vars

C1_Witness ==
    /\ call.op = "process"
    /\ NoHand(call.results)
    /\ Len(history) > 0
    /\ ~IsZero(smoothedDeltas)
    /\ result = Return("null", Zero, Sqrt(0))

\* the second of two consecutive process calls with one and the same 21-point frame
SameFrameAgain ==
    /\ call.op = "process"
    /\ call'.op = "process"
    /\ ~NoHand(call'.results)
    /\ call'.results = call.results
    /\ HandOf(call'.results).n = 21

\* C2 as stated: for two consecutive identical frames the second call
\* returns velocity 0 and delta (0,0,0), whatever the gesture.
C2_StaticPoseZero ==
    [][(SameFrameAgain /\ Returned(result')) =>
         ZeroVelocity(result') /\ IsZero(result'.delta)]_vars

\* C2 amended: for two consecutive identical frames the second call has
\* raw wrist delta 0, so velocity is 0; delta is (0,0,0) for Point, Pinch and
\* None, and for Pan and Rotate it is half the SmoothedDelta held before the
\* call (the raw deltas in the class without smoothing); the call throws
\* only in the class of part_000, on a frame that reaches its Pan test.
C2_StaticPoseDecays ==
    [][SameFrameAgain =>
         IF Thrown(result')
         THEN LET f == HandOf(call'.results)
              IN  /\ interp = "rich"
                  /\ richFist(IndexWrist(f), MiddleWrist(f), RingWrist(f))
         ELSE /\ ZeroVelocity(result')
              /\ IF result'.type \in {"pan", "rotate"} /\ interp # "simple"
                 THEN /\ RatEq(result'.delta, Half(smoothedDeltas))
                      /\ smoothedDeltas' = result'.delta
                 ELSE IsZero(result'.delta)]_vars

C2_Witness ==
    /\ ProcessedFull
    /\ SameTwice
    /\ Returned(result)
    /\ result.type = "rotate"
    /\ ~IsZero(result.delta)
    /\ result.velocity = Sqrt(0)

\* a 21-point frame with thumb tip on index tip and middle and ring curled,
\* processed after nothing or after a frame that holds landmarks 0 and 8
PinchedCurled ==
    IF ProcessedFull
    THEN /\ Coincident(HandOf(call.results))
         /\ Curled(HandOf(call.results))
         /\ PrevHas(0) /\ PrevHas(8)
    ELSE FALSE

\* C3 as stated: a frame with thumb tip and index tip coincident and middle
\* and ring curled is classified Pinch, never Point, whatever the
\* index-to-wrist distance.
C3_PinchOverPoint ==
    PinchedCurled => Returned(result) /\ result.type = "pinch"

\* C3 amended: such a frame is classified Pinch when the index-to-wrist
\* distance is at most 0.4 and Point when it exceeds 0.4 in the class of
\* part_000 (Point is tested first); the classes without Point return Pinch.
C3_PointOverPinch ==
    PinchedCurled =>
        /\ Returned(result)
        /\ result.type = IF interp = "rich" /\ Gt(IndexWrist(HandOf(call.results)), 40)
                         THEN "point" ELSE "pinch"

C3_Witness ==
    /\ PinchedCurled
    /\ interp = "rich"
    /\ result.type = "point"
    /\ Len(arrived) >= 2

\* a 21-point open-palm frame (index, middle, ring farther than 0.45 from
\* the wrist) processed after nothing or after a frame holding landmark 0
OpenPalm ==
    IF ProcessedFull
    THEN AllFar(HandOf(call.results)) /\ PrevHas(0)
    ELSE FALSE

C5_Convergence ==
    (interp # "simple" /\ run.len > 0) =>
        RatEq(TimesPow2(Minus(smoothedDeltas, run.raw), run.len),
              Minus(run.start, run.raw))

C5_Witness ==
    /\ interp # "simple"
    /\ run.len >= 2
    /\ run.raw = Vec(5, 12, 2)
    /\ ~RatEq(smoothedDeltas, Delta(5, 12, 2))

\* C10: a hand with fewer than 21 points is treated as absent: process
\* returns the None event with zero delta and velocity 0, does not throw,
\* and leaves History and SmoothedDelta unchanged.
C10_ShortHandIsAbsent ==
    [][(IF call'.op = "process" /\ ~NoHand(call'.results)
        THEN HandOf(call'.results).n < 21 ELSE FALSE) =>
         /\ Returned(result')
         /\ result'.type = "null"
         /\ IsZero(result'.delta)
         /\ ZeroVelocity(result')
         /\ history' = history
         /\ smoothedDeltas' = smoothedDeltas]_vars

---------------------------------------------------------------------------
(* Property of the history, checked under SpecHist *)

Min(a, b) == IF a < b THEN a ELSE b
LastOf(seq, n) == SubSeq(seq, Len(seq) - n + 1, Len(seq))

\* C9: History holds at most N frames (10, or 5 in GestureInterpreter.ts),
\* namely the most recent present-hand frames in arrival order, and the delta
\* of a call is the difference of the latest and the preceding frame only.
C9_HistoryWindow ==
    /\ Len(history) <= Capacity
    /\ history = LastOf(arrived, Min(Len(arrived), Capacity))
    /\ (call.op = "process" /\ ~NoHand(call.results) /\ Len(arrived) >= 2) =>
         LET curr == arrived[Len(arrived)].wrist
             prev == arrived[Len(arrived) - 1].wrist
         IN  /\ Returned(result)
             /\ HasVelocity(result) =>
                    result.velocity = Sqrt((curr.x - prev.x) * (curr.x - prev.x)
                                           + (curr.y - prev.y) * (curr.y - prev.y))
             /\ ~HasVelocity(result) =>
                    result.delta = Delta(curr.x - prev.x, curr.y - prev.y, curr.z - prev.z)

C9_Witness ==
    /\ interp # "simple"
    /\ Len(arrived) = Capacity + 1
    /\ Len(history) = Capacity
    /\ arrived[1] # arrived[2]
    /\ history[1] = arrived[2]
    /\ call.op = "process" /\ ~NoHand(call.results)

---------------------------------------------------------------------------
(* Properties of the controller, checked under Spec *)

\* the step is a detection frame with a hand on which process returned
FrameStep ==
    /\ call'.op = "handleResults"
    /\ ~NoHand(call'.results)
    /\ Returned(result')

\* a returned event that makes handleGestures leave focus
Disqualifies(data) ==
    \/ data.type = "pinch" /\ DeltaZGt(data.delta, 5)
    \/ data.type = "pan" /\ HasVelocity(data) /\ Gt(data.velocity, 10)

\* the step is a frame of the dwell controller whose ray hits the planet
\* that is hovered already, delta milliseconds after the hover started
DwellFrameAt(delta) ==
    /\ app = "dwell"
    /\ FrameStep
    /\ call'.hit # NoPlanet
    /\ call'.hit = hoveredPlanet
    /\ now' - hoverStartTime = delta

\* C6 as stated: a frame on the hovered target exactly 1200 ms after the
\* hover started selects the target, and a frame 1199 ms after does not.
C6_DwellAtThreshold ==
    [][/\ (DwellFrameAt(1200) /\ ~Disqualifies(result')) =>
              selectedPlanet' = call'.hit
       /\ (DwellFrameAt(1199) /\ selectedPlanet # call'.hit) =>
              selectedPlanet' # call'.hit]_vars

\* C6 amended: a frame on the hovered target selects it when more than
\* 1200 ms have passed since the hover started (1201 ms does, unless the
\* frame itself is a disqualifying pinch or pan, which exits focus in the
\* same frame); frames 1200 ms and 1199 ms after the hover started do not.
C6_DwellPastThreshold ==
    [][/\ (DwellFrameAt(1201) /\ ~Disqualifies(result')) =>
              selectedPlanet' = call'.hit
       /\ (DwellFrameAt(1201) /\ Disqualifies(result')) =>
              selectedPlanet' = NoPlanet
       /\ ((DwellFrameAt(1200) \/ DwellFrameAt(1199)) /\ selectedPlanet # call'.hit) =>
              selectedPlanet' # call'.hit]_vars

C6_Witness ==
    /\ app = "dwell"
    /\ call.op = "handleResults"
    /\ call.hit # NoPlanet
    /\ selectedPlanet = call.hit
    /\ hoveredPlanet = call.hit
    /\ now - hoverStartTime = 1201

\* C7: in the point controller a frame whose gesture is Point and whose ray
\* intersects a target selects that target in the same frame, whether or not
\* an earlier frame hovered it.
C7_PointLocks ==
    [][(app = "point" /\ FrameStep /\ result'.type = "point" /\ call'.hit # NoPlanet) =>
           /\ selectedPlanet' = call'.hit
           /\ hoveredPlanet' = call'.hit
           /\ ~panelHidden']_vars

C7_Witness ==
    /\ app = "point"
    /\ call.op = "handleResults"
    /\ Len(arrived) = 1
    /\ Returned(result)
    /\ result.type = "point"
    /\ call.hit # NoPlanet
    /\ selectedPlanet = call.hit

\* C8: a selected target is released (selectedPlanet becomes null) only by
\* the exit button, by a Pinch frame with delta.z above 0.05 or by a Pan frame
\* with velocity above 0.1; frames whose ray misses every target and results
\* without a hand leave selectedPlanet as it is.
C8_FocusPersists ==
    [][selectedPlanet # NoPlanet =>
         /\ selectedPlanet' = NoPlanet =>
                \/ call'.op = "exitFocus"
                \/ FrameStep /\ Disqualifies(result')
         /\ (call'.op = "handleResults" /\ NoHand(call'.results)) =>
                selectedPlanet' = selectedPlanet
         /\ (FrameStep /\ call'.hit = NoPlanet /\ ~Disqualifies(result')) =>
                selectedPlanet' = selectedPlanet]_vars

C8_Witness ==
    /\ app = "point"
    /\ call.op = "handleResults"
    /\ ~NoHand(call.results)
    /\ call.hit = NoPlanet
    /\ hoveredPlanet = NoPlanet
    /\ selectedPlanet # NoPlanet

---------------------------------------------------------------------------
(* The closed fist in the class of part_000, checked under SpecInterp *)

\* a 21-point frame with index, middle and ring fingertips all nearer than
\* 0.25 to the wrist (so not a Point) whose thumb is not within the pinch limit
ClosedFist ==
    IF ProcessedFull
    THEN LET f == HandOf(call.results)
         IN  /\ Lt(IndexWrist(f), 25)
             /\ Lt(MiddleWrist(f), 25)
             /\ Lt(RingWrist(f), 25)
             /\ ~Lt(ThumbIndex(f), PinchLimit)
    ELSE FALSE

\* C11: in the class of part_000 every frame whose index, middle and ring
\* fingertips are all within 0.25 of the wrist and that is neither a Point
\* nor a Pinch makes process return a Pan event, without a fault.
C11_FistPans ==
    (interp = "rich" /\ ClosedFist /\ PrevHas(0)) =>
        Returned(result) /\ result.type = "pan"

---------------------------------------------------------------------------
(* Losing the hand, checked under Spec *)

\* C12: a detection result with no hand clears Hovering (hoveredPlanet
\* becomes none, so the dwell timer no longer refers to the target hovered
\* before) and leaves selectedPlanet as it was.
C12_NoHandClearsHover ==
    [][(call'.op = "handleResults" /\ NoHand(call'.results)) =>
         /\ hoveredPlanet' \notin Planets
         /\ selectedPlanet' = selectedPlanet]_vars

---------------------------------------------------------------------------
(* Velocity, checked under SpecInterp *)

\* the magnitude of the wrist's 2D difference between the last frame pushed
\* and the one pushed before it; 0 when only one frame was pushed
WristSpeed ==
    IF Len(arrived) < 2 THEN Sqrt(0)
    ELSE LET curr == arrived[Len(arrived)].wrist
             prev == arrived[Len(arrived) - 1].wrist
         IN  Sqrt((curr.x - prev.x) * (curr.x - prev.x)
                  + (curr.y - prev.y) * (curr.y - prev.y))

\* C13: every process call on a present hand that returns, in the classes
\* of part_000 and part_002, returns velocity equal to the magnitude of the
\* wrist's 2D difference between the latest and the preceding frame, the
\* calls returning type None included.
C13_VelocityAlways ==
    (interp # "simple" /\ ProcessedFull /\ PrevHas(0) /\ Returned(result)) =>
        HasVelocity(result) /\ result.velocity = WristSpeed

---------------------------------------------------------------------------
(* Camera commands while a planet is selected, checked under Spec *)

\* the gsap.to calls of a handler that animate camera.position
OnPosition(tw) == {i \in 1..Len(tw) : tw[i].target = "camera.position"}
\* those made by the branch `by` of handleGestures (or by focusOnPlanet)
By(tw, by) == {i \in 1..Len(tw) : tw[i].by = by}
\* those that turn the camera to the origin while they run
TurnsToOrigin(tw) == {i \in 1..Len(tw) : tw[i].onUpdate = "camera.lookAt(0,0,0)"}

\* C14: while a planet is selected, a detection frame classified Pan
\* issues no camera-position command.
C14_PanSuppressed ==
    [][(selectedPlanet # NoPlanet /\ FrameStep /\ result'.type = "pan") =>
         OnPosition(tweens') = {}]_vars

\* the one command of the last branch of handleGestures
RestTween == Tween("rest", "camera", {"fov"}, "camera.updateProjectionMatrix")

\* C15: while a planet is selected, a detection frame classified Rotate
\* issues no orbit command on the camera position and no look-at toward the
\* origin: its one command is the field-of-view tween of the last branch.
C15_RotateSuppressed ==
    [][(selectedPlanet # NoPlanet /\ FrameStep /\ result'.type = "rotate") =>
         /\ By(tweens', "rotate") = {}
         /\ TurnsToOrigin(tweens') = {}
         /\ tweens' = <<RestTween>>
         /\ selectedPlanet' # NoPlanet]_vars

\* an open palm seen by the App of main.ts while a planet is selected: a
\* Rotate frame cannot select there, so the planet was selected before it
C15_Witness ==
    /\ app = "point"
    /\ call.op = "handleResults"
    /\ Returned(result)
    /\ result.type = "rotate"
    /\ selectedPlanet \in Planets
    /\ tweens = <<RestTween>>

\* C16: while a planet is selected the camera position is changed by the
\* follow step of the render tick alone: a detection frame, whatever its
\* gesture (Pinch included), issues no camera-position command.
C16_FollowOnly ==
    [][(selectedPlanet # NoPlanet /\ FrameStep) => OnPosition(tweens') = {}]_vars

---------------------------------------------------------------------------
(* Leaving focus by gesture, checked under Spec *)

\* C17: while a planet is selected, a Pinch frame with delta.z above 0.05
\* and a Pan frame with velocity above 0.1 each end with selectedPlanet null;
\* a Pinch frame with delta.z at or below 0.05, a Pan frame with velocity at
\* or below 0.1 and a frame of any other type end with a planet selected.
C17_GestureExits ==
    [][(selectedPlanet # NoPlanet /\ FrameStep) =>
         LET data == result'
             strongPinch == data.type = "pinch" /\ DeltaZGt(data.delta, 5)
             fastPan == data.type = "pan" /\ HasVelocity(data) /\ Gt(data.velocity, 10)
         IN  IF strongPinch \/ fastPan
             THEN selectedPlanet' = NoPlanet
             ELSE selectedPlanet' # NoPlanet]_vars

\* a fast Pan frame on the planet hovered for more than 1200 ms in the App
\* of part_002, after a render tick has turned the camera to that planet:
\* the planet was selected, and the frame ends with none selected
C17_Witness ==
    /\ app = "dwell"
    /\ call.op = "handleResults"
    /\ Returned(result)
    /\ result.type = "pan"
    /\ Gt(result.velocity, 10)
    /\ call.hit \in Planets
    /\ hoveredPlanet = call.hit
    /\ now - hoverStartTime > 1200
    /\ cameraTarget = call.hit
    /\ selectedPlanet = NoPlanet
    /\ panelHidden

---------------------------------------------------------------------------
(* Side effects of focus, checked under Spec *)

\* the time scale focusOnPlanet sets, in hundredths
NearFrozen == IF app = "point" THEN 1 ELSE 2

\* C18: in every reachable state the time scale is the near-frozen value
\* (0.01 in main.ts, 0.02 in part_002) exactly when a planet is selected and
\* 2.5 exactly when none is, and the detail panel is shown exactly when a
\* planet is selected.
C18_FocusEffects ==
    /\ selectedPlanet # NoPlanet <=> timeScale = NearFrozen
    /\ selectedPlanet = NoPlanet <=> timeScale = 250
    /\ selectedPlanet # NoPlanet <=> ~panelHidden

\* Mars selected after Earth was: the camera was last turned to Earth by a
\* render tick, and the selection then moved to Mars, by re-targeting or by
\* an exit and a new entry
C18_Witness ==
    /\ selectedPlanet = "Mars"
    /\ cameraTarget = "Earth"
    /\ call.op = "handleResults"
    /\ timeScale = NearFrozen
    /\ ~panelHidden

---------------------------------------------------------------------------
(* Priority of the predicates, checked under SpecInterp *)

\* the predicates of the class in use that a frame satisfies
Satisfied(f) ==
    LET i == IndexWrist(f)
        m == MiddleWrist(f)
        r == RingWrist(f)
        p == ThumbIndex(f)
    IN  CASE interp = "rich" ->
               {l \in {"point"} : richPoint(i, m, r)}
               \cup {l \in {"pinch"} : richPinch(p)}
               \cup {l \in {"pan"} : richFist(i, m, r)}
               \cup {l \in {"rotate"} : richPalm(i, m, r)}
          [] interp = "mid" ->
               {l \in {"pinch"} : midPinch(p)}
               \cup {l \in {"pan"} : midFist(i, m, r)}
               \cup {l \in {"rotate"} : midPalm(i, m)}
          [] interp = "simple" ->
               {l \in {"pinch"} : Lt(p, 5)}
               \cup {l \in {"pan"} : Lt(i, 20) /\ Lt(m, 20)}
               \cup {l \in {"rotate"} : Gt(i, 40) /\ Gt(m, 40)}

\* the first of Point, Pinch, Pan, Rotate in a set of labels, None if empty
FirstOf(labels) ==
    CASE "point" \in labels -> "point"
      [] "pinch" \in labels -> "pinch"
      [] "pan" \in labels -> "pan"
      [] "rotate" \in labels -> "rotate"
      [] OTHER -> "null"

\* C19: a 21-point frame that satisfies more than one predicate (after a
\* frame holding the landmarks read, if any) is labelled with the first
\* satisfied predicate in the order Point, Pinch, Pan, Rotate, and the label
\* of every frame process returns on depends on the frame alone: it is the
\* first predicate the frame satisfies, None if it satisfies none.
C19_Priority ==
    (ProcessedFull /\ PrevHas(0) /\ PrevHas(8)) =>
        LET f == HandOf(call.results)
        IN  /\ Cardinality(Satisfied(f)) > 1 => Returned(result)
            /\ Returned(result) => result.type = FirstOf(Satisfied(f))

\* thumb on the tip of an extended index finger, the other fingers curled,
\* seen by the class of part_000: Point and Pinch both hold, Point is returned
C19_Witness ==
    /\ interp = "rich"
    /\ ProcessedFull
    /\ {"point", "pinch"} \subseteq Satisfied(HandOf(call.results))
    /\ Returned(result)
    /\ result.type = "point"
    /\ Len(arrived) >= 2

---------------------------------------------------------------------------
(* The first frame, checked under SpecInterp *)

\* C20: on the first present-hand frame after construction process returns
\* a zero delta and velocity 0, whatever the frame is classified as, and
\* does not throw.
C20_FirstFrameZero ==
    (ProcessedFull /\ Len(arrived) = 1) =>
        /\ Returned(result)
        /\ IsZero(result.delta)
        /\ ZeroVelocity(result)

---------------------------------------------------------------------------
(* The smoothing step, checked under SpecInterp *)

\* C21: a frame classified Point returns delta (0,0,0) and leaves
\* SmoothedDelta as it was; SmoothedDelta changes only in process calls that
\* return Pinch, Pan or Rotate.
C21_PointUnsmoothed ==
    [][call'.op = "process" =>
         /\ (Returned(result') /\ result'.type = "point") =>
                /\ result'.delta = Zero
                /\ smoothedDeltas' = smoothedDeltas
         /\ ~RatEq(smoothedDeltas', smoothedDeltas) =>
                /\ Returned(result')
                /\ result'.type \in {"pinch", "pan", "rotate"}]_vars

\* a Point frame whose wrist moved since the frame before, processed while
\* SmoothedDelta holds a nonzero value
C21_Witness ==
    /\ ProcessedFull
    /\ Returned(result)
    /\ result.type = "point"
    /\ result.delta = Zero
    /\ Gt(WristSpeed, 0)
    /\ ~IsZero(smoothedDeltas)

\* C22: on every frame classified Pinch, Pan or Rotate the delta of the
\* returned event is the smoothed value smoothed*(1-a) + raw*a that the call
\* leaves in SmoothedDelta (for Pinch: the vector, or its y-component carried
\* in delta.z), not the raw finite difference.
C22_EventCarriesSmoothed ==
    (interp # "simple" /\ call.op = "process" /\ Returned(result)
       /\ result.type \in {"pinch", "pan", "rotate"}) =>
        \/ RatEq(result.delta, smoothedDeltas)
        \/ /\ result.type = "pinch"
           /\ result.delta.x = 0
           /\ result.delta.y = 0
           /\ result.delta.z * Pow2(smoothedDeltas.k) = smoothedDeltas.y * Pow2(result.delta.k)

---------------------------------------------------------------------------
(* Hover and dwell, checked under Spec *)

\* C23: in the dwell controller a frame whose ray hits a planet other than
\* the hovered one restarts the dwell timer at that frame and does not
\* select the planet; a planet becomes selected only in a frame that finds it
\* hovered already, more than 1200 ms after the frame that restarted the
\* timer, however long another planet was hovered before.
C23_DwellRestarts ==
    [][(app = "dwell" /\ FrameStep) =>
         /\ (call'.hit \in Planets /\ call'.hit # hoveredPlanet) =>
                /\ hoveredPlanet' = call'.hit
                /\ hoverStartTime' = now'
                /\ selectedPlanet' = call'.hit => selectedPlanet = call'.hit
         /\ (selectedPlanet' \in Planets /\ selectedPlanet' # selectedPlanet) =>
                /\ hoveredPlanet = selectedPlanet'
                /\ hoverStartTime' = hoverStartTime
                /\ now' - hoverStartTime > 1200]_vars

\* Earth is selected, so it was hovered for more than 1200 ms; the frame's
\* ray hits Mars at that late time: the timer restarts and Mars is only hovered
C23_Witness ==
    /\ app = "dwell"
    /\ call.op = "handleResults"
    /\ call.hit = "Mars"
    /\ hoveredPlanet = "Mars"
    /\ hoverStartTime = now
    /\ now - FirstClock > 1200
    /\ selectedPlanet = "Earth"

\* C24: after every detection frame that contains a hand, hoveredPlanet is
\* the nearest planet the ray from the index fingertip hits, or none when it
\* hits no planet; a miss changes selectedPlanet only when the frame's
\* gesture itself exits focus.
C24_HoverTracksRay ==
    [][(call'.op = "handleResults" /\ ~NoHand(call'.results)) =>
         /\ hoveredPlanet' = call'.hit
         /\ (call'.hit = NoPlanet /\ Returned(result') /\ ~Disqualifies(result')) =>
                selectedPlanet' = selectedPlanet]_vars

\* a frame with a hand, its ray on `planet`, that ends with `planet` selected
FrameSelecting(planet) ==
    \E results \in AppInputs, t \in Readings :
        /\ ~NoHand(results)
        /\ Len(arrived) < MaxAppFrames
        /\ HandleResults(results, planet, t)
        /\ UNCHANGED trackerVars
        /\ selectedPlanet' = planet

\* C25: in the dwell controller a result with no hand leaves hoveredPlanet
\* and hoverStartTime as they were, and the first frame after such a result
\* whose ray hits the hovered planet more than 1200 ms after the hover
\* started selects it (unless the frame's gesture exits focus at once).
C25_HoverSurvivesGap ==
    [][app = "dwell" =>
         /\ (call'.op = "handleResults" /\ NoHand(call'.results)) =>
                /\ hoveredPlanet' = hoveredPlanet
                /\ hoverStartTime' = hoverStartTime
         /\ (call.op = "handleResults" /\ NoHand(call.results) /\ FrameStep
               /\ call'.hit \in Planets /\ call'.hit = hoveredPlanet
               /\ now' - hoverStartTime > 1200
               /\ ~Disqualifies(result')) =>
                selectedPlanet' = call'.hit]_vars

\* the hand is gone, Earth is still hovered with time passed since the hover
\* started and nothing is selected, and a frame on Earth that selects it can
\* come next
C25_Witness ==
    /\ app = "dwell"
    /\ call.op = "handleResults"
    /\ NoHand(call.results)
    /\ hoveredPlanet = "Earth"
    /\ now > hoverStartTime
    /\ selectedPlanet = NoPlanet
    /\ ENABLED FrameSelecting("Earth")

\* C26: in the dwell controller exitFocus leaves hoveredPlanet and
\* hoverStartTime as they are, whether it runs from the exit button or from
\* a disqualifying gesture; the next frame whose ray hits the planet still
\* hovered, more than 1200 ms after that hover started, selects it again
\* without a new dwell period (unless its own gesture exits focus).
C26_ExitKeepsHover ==
    [][app = "dwell" =>
         /\ call'.op = "exitFocus" =>
                /\ hoveredPlanet' = hoveredPlanet
                /\ hoverStartTime' = hoverStartTime
         /\ (FrameStep /\ selectedPlanet # NoPlanet /\ selectedPlanet' = NoPlanet
               /\ call'.hit = hoveredPlanet) =>
                /\ hoveredPlanet' = hoveredPlanet
                /\ hoverStartTime' = hoverStartTime
         /\ (FrameStep /\ selectedPlanet = NoPlanet
               /\ call'.hit \in Planets /\ call'.hit = hoveredPlanet
               /\ now' - hoverStartTime > 1200
               /\ ~Disqualifies(result')) =>
                /\ selectedPlanet' = call'.hit
                /\ hoverStartTime' = hoverStartTime]_vars

\* the exit button was clicked while Earth was selected and followed by the
\* camera; Earth is still hovered, with its old start time, and a frame on
\* Earth that selects it again can come next
C26_Witness ==
    /\ app = "dwell"
    /\ call.op = "exitFocus"
    /\ cameraTarget = "Earth"
    /\ hoveredPlanet = "Earth"
    /\ now - hoverStartTime > 1200
    /\ selectedPlanet = NoPlanet
    /\ ENABLED FrameSelecting("Earth")

---------------------------------------------------------------------------
(* History across a hand-loss gap, checked under Spec *)

\* a frame with a hand, classified Pan with velocity above 0.1, that ends
\* with no planet selected
FrameReleasingByPan ==
    \E results \in AppInputs, hit \in Planets \cup {NoPlanet}, t \in Readings :
        /\ ~NoHand(results)
        /\ Len(arrived) < MaxAppFrames
        /\ HandleResults(results, hit, t)
        /\ UNCHANGED trackerVars
        /\ Returned(result')
        /\ result'.type = "pan"
        /\ Gt(result'.velocity, 10)
        /\ selectedPlanet' = NoPlanet

\* C27: a result with no hand leaves History as it is and no step empties
\* it, so on the first frame with a hand after a gap the velocity of a
\* returned Point, Pinch, Pan or Rotate event is the wrist's distance from
\* the last frame seen before the gap; when that frame is a Pan with velocity
\* above 0.1 and a planet is selected, the frame releases it.
C27_GapKeepsHistory ==
    [][/\ (call'.op = "handleResults" /\ NoHand(call'.results)) => history' = history
       /\ history # <<>> => history' # <<>>
       /\ (call.op = "handleResults" /\ NoHand(call.results) /\ FrameStep) =>
              /\ (HasVelocity(result') /\ result'.type # "null") =>
                     result'.velocity = WristSpeed'
              /\ (result'.type = "pan" /\ HasVelocity(result')
                    /\ Gt(result'.velocity, 10) /\ selectedPlanet # NoPlanet) =>
                     selectedPlanet' = NoPlanet]_vars

\* the hand is gone while Earth is selected, after two frames with a hand,
\* and a Pan frame with velocity above 0.1 that releases Earth can come next
C27_Witness ==
    /\ call.op = "handleResults"
    /\ NoHand(call.results)
    /\ Len(arrived) >= 2
    /\ selectedPlanet = "Earth"
    /\ ENABLED FrameReleasingByPan

---------------------------------------------------------------------------
(* One smoothed vector for all gestures, checked under SpecInterp *)

\* s + r for a dyadic vector and an integer vector
Plus(s, r) == [x |-> s.x + r.x * Pow2(s.k), y |-> s.y + r.y * Pow2(s.k),
               z |-> s.z + r.z * Pow2(s.k), k |-> s.k]

\* landmark i of the last frame of a log minus landmark i of the frame
\* before it; zero with fewer than two frames
DiffIn(log, i) ==
    IF Len(log) < 2 THEN Vec(0, 0, 0)
    ELSE LET curr == At(log[Len(log)], i)
             prev == At(log[Len(log) - 1], i)
         IN  Vec(curr.x - prev.x, curr.y - prev.y, curr.z - prev.z)

\* C28: SmoothedDelta is one vector for all gestures and no call resets it.
\* A Pinch call folds the index-tip difference into it and returns the raw
\* y-difference in delta.z; a Pan or Rotate call folds the wrist difference
\* into whatever the vector held before the call, left there by earlier
\* Pinch, Pan or Rotate calls, and returns the result; calls without a hand
\* leave it as it was.
C28_SharedSmoothedDelta ==
    [][(call'.op = "process" /\ interp # "simple") =>
         IF NoHand(call'.results) THEN smoothedDeltas' = smoothedDeltas
         ELSE (Returned(result') /\ HandOf(call'.results).n = 21) =>
              LET d8 == DiffIn(arrived', 8)
                  d0 == DiffIn(arrived', 0)
              IN  /\ result'.type = "pinch" =>
                         /\ RatEq(smoothedDeltas', Half(Plus(smoothedDeltas, d8)))
                         /\ result'.delta = Delta(0, 0, d8.y)
                  /\ result'.type \in {"pan", "rotate"} =>
                         /\ RatEq(smoothedDeltas', Half(Plus(smoothedDeltas, d0)))
                         /\ result'.delta = smoothedDeltas']_vars

\* a Rotate event on the third frame, right after a Pinch frame whose index
\* tip had moved: its delta is not half the wrist difference, which a vector
\* starting from zero would give, but carries the Pinch frame's share
C28_Witness ==
    /\ interp = "rich"
    /\ ProcessedFull
    /\ Len(arrived) = 3
    /\ richPinch(ThumbIndex(arrived[2]))
    /\ ~richPoint(IndexWrist(arrived[2]), MiddleWrist(arrived[2]), RingWrist(arrived[2]))
    /\ arrived[2].index # arrived[1].index
    /\ Returned(result)
    /\ result.type = "rotate"
    /\ ~RatEq(result.delta, Half(Plus(Zero, DiffIn(arrived, 0))))

---------------------------------------------------------------------------
(* main.ts with the class its import resolves to, checked under Spec *)

\* C29: with the class of src/src/gestures/GestureInterpreter.ts in the
\* App of src/src/main.ts no event has type Point or a velocity, and
\* selectedPlanet is null in every reachable state.
C29_SimpleNeverFocuses ==
    (app = "point" /\ interp = "simple") =>
        /\ selectedPlanet = NoPlanet
        /\ panelHidden
        /\ Returned(result) => result.type # "point" /\ ~HasVelocity(result)

\* a pointing hand (index extended, middle and ring curled) whose ray hits
\* Earth, seen by that composition: Earth is hovered and nothing is selected
C29_Witness ==
    /\ app = "point"
    /\ interp = "simple"
    /\ call.op = "handleResults"
    /\ ~NoHand(call.results)
    /\ LET f == HandOf(call.results)
       IN  richPoint(IndexWrist(f), MiddleWrist(f), RingWrist(f))
    /\ call.hit = "Earth"
    /\ hoveredPlanet = "Earth"
    /\ Returned(result)
    /\ selectedPlanet = NoPlanet

---------------------------------------------------------------------------
(* The camera loop, checked under SpecTracker *)

\* C30: processVideo awaits hands.send before it asks for the next animation
\* frame, so at most one frame is with the detector at any time, the next
\* call of processVideo is due only when none is, and the results reach
\* App.handleResults one by one in the order the frames were captured.
C30_OneAtATime ==
    /\ Cardinality(outstanding) <= 1
    /\ pc = "processVideo" => outstanding = {}
    /\ \A i \in 1..Len(delivered) : delivered[i] = i

\* two results were handled in order and the third frame is with the detector
C30_Witness ==
    /\ pc = "send"
    /\ outstanding = {3}
    /\ delivered = <<1, 2>>
    /\ call.op = "processVideo"

====
